---- MODULE Spec2Model ----
(***************************************************************************)
(* A model of the documentation retrieval engine of mcp_server:            *)
(* docs_index.py (scope registry, file enumeration, line search, line      *)
(* range slicing), docs_tools.py (the tool-facing search, the file         *)
(* listing, the header section extractor) and server_2.py (the older       *)
(* search tool).                                                           *)
(*                                                                         *)
(* Text is a sequence of one-character strings, so that lower(), strip(),  *)
(* splitlines(), join() and Python's slices are computed and not assumed.  *)
(* A path is the string the program shows for it: the path relative to     *)
(* REPO_ROOT.  REPO_ROOT / rel and relative_to(REPO_ROOT) are inverse on   *)
(* the paths of the model (all lie under REPO_ROOT), so both are the       *)
(* identity on this representation.                                        *)
(***************************************************************************)
EXTENDS Integers, Sequences, FiniteSets, TLC

VARIABLES
    fs,          \* the filesystem below REPO_ROOT (never written by the program)
    scopePaths,  \* SCOPE_PATHS, the scope registry
    op,          \* the last query: its name and arguments
    res,         \* what the last query returned or raised
    probe,       \* a query and its result that a caller has remembered
    scan         \* the locals of a search_scope call that runs file by file

vars == <<fs, scopePaths, op, res, probe, scan>>

(* ------------------------------------------------------------------ *)
(* Python str and list operations                                      *)
(* ------------------------------------------------------------------ *)

NL == "\n"

\* str.lower() on the characters of the model
LowerChar(c) == IF c = "A" THEN "a" ELSE IF c = "B" THEN "b" ELSE c

Lower(s) == [i \in 1..Len(s) |-> LowerChar(s[i])]

\* the characters str.strip() and str.lstrip() remove
Whitespace == {" ", NL}

Min(a, b) == IF a <= b THEN a ELSE b

Max(a, b) == IF a >= b THEN a ELSE b

\* seq[i:j] of Python, i and j 0-based, negative values counted from the end
PySlice(s, i, j) ==
    LET n  == Len(s)
        lo == IF i < 0 THEN Max(n + i, 0) ELSE Min(i, n)
        hi == IF j < 0 THEN Max(n + j, 0) ELSE Min(j, n)
    IN  IF hi <= lo THEN << >> ELSE SubSeq(s, lo + 1, hi)

\* the number of leading characters of s that lie in cs
RECURSIVE LeadCount(_, _)
LeadCount(s, cs) ==
    IF s = << >> \/ Head(s) \notin cs THEN 0 ELSE 1 + LeadCount(Tail(s), cs)

\* the number of trailing characters of s that lie in cs
RECURSIVE TrailCount(_, _)
TrailCount(s, cs) ==
    IF s = << >> \/ s[Len(s)] \notin cs THEN 0
    ELSE 1 + TrailCount(SubSeq(s, 1, Len(s) - 1), cs)

\* str.lstrip()
LStrip(s) == SubSeq(s, LeadCount(s, Whitespace) + 1, Len(s))

\* str.rstrip()
RStrip(s) == SubSeq(s, 1, Len(s) - TrailCount(s, Whitespace))

\* str.strip()
Strip(s) == RStrip(LStrip(s))

\* str.lstrip("#")
LStripHash(s) == SubSeq(s, LeadCount(s, {"#"}) + 1, Len(s))

\* sub in s
Contains(sub, s) ==
    \E i \in 0..(Len(s) - Len(sub)) : SubSeq(s, i + 1, i + Len(sub)) = sub

\* str.splitlines(): no empty last line after a final newline
RECURSIVE SplitAcc(_, _, _)
SplitAcc(t, cur, acc) ==
    IF t = << >> THEN (IF cur = << >> THEN acc ELSE Append(acc, cur))
    ELSE IF Head(t) = NL THEN SplitAcc(Tail(t), << >>, Append(acc, cur))
    ELSE SplitAcc(Tail(t), Append(cur, Head(t)), acc)

SplitLines(t) == SplitAcc(t, << >>, << >>)

\* "\n".join(lines)
RECURSIVE Join(_)
Join(ls) ==
    IF ls = << >> THEN << >>
    ELSE IF Len(ls) = 1 THEN ls[1]
    ELSE ls[1] \o <<NL>> \o Join(Tail(ls))

\* the concatenation of a sequence of sequences
RECURSIVE Flatten(_)
Flatten(ss) == IF ss = << >> THEN << >> ELSE Head(ss) \o Flatten(Tail(ss))

Range(s) == {s[i] : i \in 1..Len(s)}

(* ------------------------------------------------------------------ *)
(* Paths and the scope registry                                        *)
(* ------------------------------------------------------------------ *)

PUnified == "openai-docs-unified.md"
PApi     == "openai-docs-api-reference"
PGuides  == "openai-docs-guides"
PPython  == "openai-python-docs"
PNode    == "openai-node-js-docs"
PAgents  == "openai-agents-python-docs"
PCook    == "openai-cookbook"
PA       == "openai-docs-api-reference/a.md"
PB       == "openai-docs-api-reference/b.md"
PN       == "openai-docs-api-reference/n.txt"
PG       == "openai-docs-guides/g.md"
PNope    == "nope.md"

\* REPO_ROOT itself, as str(REPO_ROOT.relative_to(REPO_ROOT)) shows it
REPO_ROOT == "."

\* every path of the model, in ascending order of Python's str comparison
PathOrder ==
    << PNope, PAgents, PCook, PApi, PA, PB, PN, PGuides, PG, PUnified,
       PNode, PPython >>

Paths == Range(PathOrder)

PathRank(p) == CHOOSE i \in 1..Len(PathOrder) : PathOrder[i] = p

\* a < b on str
StrLess(a, b) == PathRank(a) < PathRank(b)

\* Path.suffix == ".md"
HasMdSuffix(p) == p \in {PUnified, PA, PB, PG, PNope}

\* the entries a recursive walk can find below a directory
Below(d) ==
    IF d = PApi THEN {PA, PB, PN} ELSE IF d = PGuides THEN {PG} ELSE {}

SCOPES == << "unified", "api", "guides", "python", "node", "agents", "cookbook" >>

SCOPE_PATHS ==
    [s \in Range(SCOPES) |->
        CASE s = "unified"  -> << PUnified >>
          [] s = "api"      -> << PApi >>
          [] s = "guides"   -> << PGuides >>
          [] s = "python"   -> << PPython >>
          [] s = "node"     -> << PNode >>
          [] s = "agents"   -> << PAgents >>
          [] s = "cookbook" -> << PCook >>]

(* ------------------------------------------------------------------ *)
(* The filesystem as the program reads it                              *)
(* ------------------------------------------------------------------ *)

\* Path.is_file(): follows symbolic links
IsFile(p) == fs.kind[p] = "file"

\* Path.is_dir()
IsDir(p) == fs.kind[p] = "dir"

\* Path.exists()
Exists(p) == fs.kind[p] # "missing"

\* Path.resolve(): the physical file a path names
Resolve(p) == fs.real[p]

\* a byte sequence that is not UTF-8
Undecodable == "?"

\* Path.read_text(encoding="utf-8", errors="ignore"): the text of the file
\* without its undecodable bytes
ReadText(p) == SelectSeq(fs.text[fs.real[p]], LAMBDA c : c # Undecodable)

\* open() succeeds: the path names a file the process may read
CanRead(p) == Exists(p) /\ ~IsDir(p) /\ fs.real[p] \notin fs.deny

\* Path.stat().st_mtime: follows symbolic links
Mtime(p) == fs.mtime[IF p \in Paths THEN fs.real[p] ELSE p]

\* root.glob("**/*.md") and root.rglob("*.md"): the entries below root whose
\* name ends in .md, in the order the directory walk yields them
Glob(root) == SelectSeq(fs.walk[root], HasMdSuffix)

(* ------------------------------------------------------------------ *)
(* Results                                                             *)
(* ------------------------------------------------------------------ *)

Ok(v) == [ok |-> TRUE, val |-> v]

\* a raised exception: its type and the numbers its message names
Raise(type, nums) == [ok |-> FALSE, err |-> type, info |-> nums]

\* the OSError that read_text raises on a path it cannot open
ReadError(p) ==
    Raise(IF ~Exists(p) THEN "FileNotFoundError"
          ELSE IF IsDir(p) THEN "IsADirectoryError"
          ELSE "PermissionError", << >>)

(* ------------------------------------------------------------------ *)
(* docs_index.py                                                       *)
(* ------------------------------------------------------------------ *)

\* get_files_for_scope: the files of a known scope, root by root
RECURSIVE FilesOfRoots(_)
FilesOfRoots(roots) ==
    IF roots = << >> THEN << >>
    ELSE LET path == Head(roots)
             here == IF IsFile(path) /\ HasMdSuffix(path) THEN << path >>
                     ELSE IF IsDir(path) THEN Glob(path)
                     ELSE << >>
         IN  here \o FilesOfRoots(Tail(roots))

get_files_for_scope(scope) ==
    IF scope \notin DOMAIN scopePaths THEN Raise("UnknownScope", << >>)
    ELSE Ok(FilesOfRoots(scopePaths[scope]))

\* the indices of the lines that contain the lowered query
MatchingLines(lines, query) ==
    SelectSeq([i \in 1..Len(lines) |-> i],
              LAMBDA i : Contains(Lower(query), Lower(lines[i])))

\* search_in_file: read_text is not guarded, its OSError leaves the function
search_in_file(file_path, query) ==
    IF ~CanRead(file_path) THEN ReadError(file_path)
    ELSE
      LET lines == SplitLines(ReadText(file_path))
          idx   == MatchingLines(lines, query)
      IN  Ok([k \in 1..Len(idx) |->
                [file |-> file_path, line |-> idx[k],
                 snippet |-> Strip(lines[idx[k]])]])

\* the loop of search_scope over files: stop once limit hits are collected;
\* an exception of search_in_file leaves the loop and the function
RECURSIVE ScanFiles(_, _, _, _)
ScanFiles(files, query, limit, results) ==
    IF files = << >> THEN Ok(results)
    ELSE LET hits == search_in_file(Head(files), query)
         IN  IF ~hits.ok THEN hits
             ELSE IF Len(results \o hits.val) >= limit THEN Ok(results \o hits.val)
             ELSE ScanFiles(Tail(files), query, limit, results \o hits.val)

DefaultScopeLimit == 20

\* search_scope without the final results[:limit]
search_scope_untruncated(scope, query, limit) ==
    IF query = << >> \/ Strip(query) = << >> THEN Ok(<< >>)
    ELSE LET lim   == IF limit <= 0 THEN DefaultScopeLimit ELSE limit
             files == get_files_for_scope(scope)
             found == ScanFiles(files.val, query, lim, << >>)
         IN  IF ~files.ok THEN files
             ELSE IF ~found.ok THEN found
             ELSE Ok(found.val)

search_scope(scope, query, limit) ==
    IF query = << >> \/ Strip(query) = << >> THEN Ok(<< >>)
    ELSE LET lim   == IF limit <= 0 THEN DefaultScopeLimit ELSE limit
             files == get_files_for_scope(scope)
             found == ScanFiles(files.val, query, lim, << >>)
         IN  IF ~files.ok THEN files
             ELSE IF ~found.ok THEN found
             ELSE Ok(PySlice(found.val, 0, lim))

\* an optional int argument: << >> is None, << n >> is n
None == << >>

Some(n) == << n >>

\* read_section with start_idx > len(lines) for start_idx >= len(lines)
read_section_off_by_one(file, start_line, end_line, max_lines) ==
    IF ~Exists(file) THEN Raise("FileNotFoundError", << >>)
    ELSE IF ~CanRead(file) THEN ReadError(file)
    ELSE
      LET lines     == SplitLines(ReadText(file))
          start     == IF start_line < 1 THEN 1 ELSE start_line
          start_idx == start - 1
      IN  IF start_idx > Len(lines)
          THEN Raise("ValueError", << start, Len(lines) >>)
          ELSE IF end_line # None /\ end_line[1] < start
          THEN Raise("ValueError", << >>)
          ELSE
            LET end_idx == IF end_line # None
                           THEN Min(end_line[1], Len(lines))
                           ELSE Min(start - 1 + max_lines, Len(lines))
                slice_lines == PySlice(lines, start_idx, end_idx)
            IN  Ok([file       |-> file,
                    start_line |-> start,
                    end_line   |-> end_idx,
                    content    |-> Join(slice_lines),
                    line_count |-> Len(slice_lines)])

read_section(file, start_line, end_line, max_lines) ==
    IF ~Exists(file) THEN Raise("FileNotFoundError", << >>)
    ELSE IF ~CanRead(file) THEN ReadError(file)
    ELSE
      LET lines     == SplitLines(ReadText(file))
          start     == IF start_line < 1 THEN 1 ELSE start_line
          start_idx == start - 1
      IN  IF start_idx >= Len(lines)
          THEN Raise("ValueError", << start, Len(lines) >>)
          ELSE IF end_line # None /\ end_line[1] < start
          THEN Raise("ValueError", << >>)
          ELSE
            LET end_idx == IF end_line # None
                           THEN Min(end_line[1], Len(lines))
                           ELSE Min(start - 1 + max_lines, Len(lines))
                slice_lines == PySlice(lines, start_idx, end_idx)
            IN  Ok([file       |-> file,
                    start_line |-> start,
                    end_line   |-> end_idx,
                    content    |-> Join(slice_lines),
                    line_count |-> Len(slice_lines)])

(* ------------------------------------------------------------------ *)
(* docs_tools.py                                                       *)
(* ------------------------------------------------------------------ *)

list_scopes == Ok(SCOPES)

DefaultToolLimit == 10

search_openai_docs(query, scope, limit) ==
    IF scope \notin Range(SCOPES) THEN Raise("UnknownScope", << >>)
    ELSE LET q == IF query # << >> THEN Strip(query) ELSE << >>
         IN  IF q = << >> THEN Ok(<< >>)
             ELSE search_scope(scope, q,
                               IF limit <= 0 THEN DefaultToolLimit ELSE limit)

\* the candidates of one root in list_openai_doc_files, server_2 and
\* get_last_update_metadata: a file
\* root as it is, a directory root's *.md entries, nothing for a missing root
Candidates(root) ==
    IF IsFile(root) THEN << root >>
    ELSE IF IsDir(root) THEN Glob(root)
    ELSE << >>

\* the seen/files loop of list_openai_doc_files: resolved paths, first
\* occurrence kept
RECURSIVE DedupResolved(_, _)
DedupResolved(paths, files) ==
    IF paths = << >> THEN files
    ELSE LET rp == Resolve(Head(paths))
         IN  DedupResolved(Tail(paths),
                           IF rp \in Range(files) THEN files ELSE Append(files, rp))

\* list.sort() on path strings
RECURSIVE InsertPath(_, _)
InsertPath(x, sorted) ==
    IF sorted = << >> THEN << x >>
    ELSE IF StrLess(x, Head(sorted)) THEN << x >> \o sorted
    ELSE << Head(sorted) >> \o InsertPath(x, Tail(sorted))

RECURSIVE SortPaths(_)
SortPaths(ps) ==
    IF ps = << >> THEN << >>
    ELSE InsertPath(ps[Len(ps)], SortPaths(SubSeq(ps, 1, Len(ps) - 1)))

list_openai_doc_files(scope) ==
    IF scope \notin DOMAIN scopePaths THEN Raise("UnknownScope", << >>)
    ELSE LET roots == scopePaths[scope]
             cands == Flatten([i \in 1..Len(roots) |-> Candidates(roots[i])])
         IN  Ok(SortPaths(DedupResolved(cands, << >>)))

\* the loop of get_last_update_metadata over the candidates: the first path
\* with the strictly greatest modification time seen so far; a path whose
\* stat() raises OSError (a dangling link) is passed over
RECURSIVE LatestOf(_, _)
LatestOf(paths, latest) ==
    IF paths = << >> THEN latest
    ELSE LatestOf(Tail(paths),
                  IF ~Exists(Head(paths)) THEN latest
                  ELSE IF Mtime(Head(paths)) > latest.mtime
                  THEN [mtime |-> Mtime(Head(paths)), path |-> << Head(paths) >>]
                  ELSE latest)

\* datetime.fromtimestamp(t, tz=timezone.utc).isoformat(): the same instant,
\* written as a UTC date and time
IsoUtc(t) == << "utc", t >>

get_last_update_metadata ==
    LET roots  == Flatten([i \in 1..Len(SCOPES) |-> scopePaths[SCOPES[i]]])
        cands  == Flatten([i \in 1..Len(roots) |-> Candidates(roots[i])])
        found  == LatestOf(cands, [mtime |-> 0, path |-> << >>])
        latest == IF found.path = << >>
                  THEN [mtime |-> Mtime(REPO_ROOT), path |-> << REPO_ROOT >>]
                  ELSE found
    IN  Ok([repo_root          |-> REPO_ROOT,
            last_modified_iso  |-> IsoUtc(latest.mtime),
            last_modified_unix |-> latest.mtime,
            last_modified_file |-> latest.path[1]])

\* len(stripped) - len(stripped.lstrip("#"))
HashCount(stripped) == Len(stripped) - Len(LStripHash(stripped))

\* stripped.startswith("#")
StartsWithHash(stripped) == stripped # << >> /\ Head(stripped) = "#"

\* the test of the first loop of _extract_section_by_header_from_file
IsMatchingHeader(line, target_text, header_level) ==
    LET stripped   == LStrip(line)
        hash_count == HashCount(stripped)
        text_part  == LStrip(SubSeq(stripped, hash_count + 1, Len(stripped)))
    IN  /\ StartsWithHash(stripped)
        /\ hash_count > 0
        /\ text_part # << >>
        /\ (header_level = None \/ hash_count = header_level[1])
        /\ Lower(text_part) = target_text

\* the test of the second loop: a line that ends the section
EndsSection(line, effective_level) ==
    LET stripped == LStrip(line)
    IN  StartsWithHash(stripped) /\ HashCount(stripped) <= effective_level

\* None is << >>, a section is << section >>
extract_section_by_header_from_file(relative_file, header, header_level, max_lines) ==
    IF ~IsFile(relative_file) THEN << >>
    ELSE
      LET lines       == SplitLines(ReadText(relative_file))
          target_text == Lower(Strip(header))
          found       == {i \in 1..Len(lines) :
                             IsMatchingHeader(lines[i], target_text, header_level)}
      IN  IF found = {} THEN << >>
          ELSE
            LET first     == CHOOSE i \in found : \A k \in found : i <= k
                start_idx == first - 1
                level     == HashCount(LStrip(lines[first]))
                enders    == {j \in (first + 1)..Len(lines) :
                                 EndsSection(lines[j], level)}
                end0      == IF enders = {} THEN Len(lines)
                             ELSE (CHOOSE j \in enders : \A k \in enders : j <= k) - 1
                end_idx   == IF (end0 - start_idx) > max_lines
                             THEN start_idx + max_lines ELSE end0
                start_line == start_idx + 1
                end_line   == end_idx
            IN  << [file       |-> relative_file,
                    start_line |-> start_line,
                    end_line   |-> end_line,
                    content    |-> Join(PySlice(lines, start_idx, end_idx)),
                    line_count |-> end_line - start_line + 1] >>

CandidateLimit == 8

\* the loop of get_openai_doc_section_by_header over the search results
RECURSIVE FirstSection(_, _, _, _)
FirstSection(matches, header, header_level, max_lines) ==
    IF matches = << >> THEN Raise("HeaderNotFound", << >>)
    ELSE LET file    == Head(matches).file
             section == extract_section_by_header_from_file(
                            file, header, header_level, max_lines)
         IN  IF IsFile(file) /\ ~CanRead(file) THEN ReadError(file)
             ELSE IF section # << >> THEN Ok(section[1])
             ELSE FirstSection(Tail(matches), header, header_level, max_lines)

get_openai_doc_section_by_header(header, scope, header_level, max_lines) ==
    IF scope \notin Range(SCOPES) THEN Raise("UnknownScope", << >>)
    ELSE LET search_results == search_scope(scope, header, CandidateLimit)
         IN  IF ~search_results.ok THEN search_results
             ELSE FirstSection(search_results.val, header, header_level, max_lines)

(* ------------------------------------------------------------------ *)
(* server_2.py                                                         *)
(* ------------------------------------------------------------------ *)

\* server_2.py writes the same table again
SCOPE_PATHS_2 == SCOPE_PATHS

Server2DefaultLimit == 5

\* add_result: a window of three lines before and after the match; the
\* score 1.0 / (1 + line_idx) is kept as its denominator
add_result(path, scope, line_idx, lines) ==
    LET start == Max(0, line_idx - 3)
        end   == Min(Len(lines), line_idx + 4)
    IN  [file       |-> path,
         scope      |-> scope,
         start_line |-> start + 1,
         end_line   |-> end,
         snippet    |-> Join(PySlice(lines, start, end)),
         score_den  |-> 1 + line_idx]

\* the body of the loop over candidates: a file whose read_text raises is
\* passed over (try / except Exception: continue)
Server2FileResults(md_file, scope, query_lower) ==
    IF ~CanRead(md_file) THEN << >>
    ELSE
      LET lines == SplitLines(ReadText(md_file))
          idx   == SelectSeq([i \in 1..Len(lines) |-> i],
                             LAMBDA i : Contains(query_lower, Lower(lines[i])))
      IN  [k \in 1..Len(idx) |-> add_result(md_file, scope, idx[k] - 1, lines)]

\* results.sort(key=score, reverse=True): stable, greatest score first
RECURSIVE InsertByScore(_, _)
InsertByScore(x, sorted) ==
    IF sorted = << >> THEN << x >>
    ELSE IF x.score_den < Head(sorted).score_den THEN << x >> \o sorted
    ELSE << Head(sorted) >> \o InsertByScore(x, Tail(sorted))

RECURSIVE SortByScore(_)
SortByScore(rs) ==
    IF rs = << >> THEN << >>
    ELSE InsertByScore(rs[Len(rs)], SortByScore(SubSeq(rs, 1, Len(rs) - 1)))

server2_search_openai_docs(query, scope, limit) ==
    LET query_lower == Strip(Lower(query))
    IN  IF query_lower = << >> THEN Ok(<< >>)
        ELSE
          LET lim   == IF limit <= 0 THEN Server2DefaultLimit ELSE limit
              paths == IF scope \in DOMAIN SCOPE_PATHS_2 THEN SCOPE_PATHS_2[scope]
                       ELSE SCOPE_PATHS_2["unified"]
              files == Flatten([i \in 1..Len(paths) |-> Candidates(paths[i])])
              results == Flatten([i \in 1..Len(files) |->
                                     Server2FileResults(files[i], scope, query_lower)])
          IN  Ok(PySlice(SortByScore(results), 0, lim))

(* ------------------------------------------------------------------ *)
(* Filesystems the program can be started on                           *)
(* ------------------------------------------------------------------ *)

\* A filesystem from its regular files (path -> text), its symbolic links
\* (path -> the file it points to) and its directories (path -> the entries
\* below it in the order a walk of the directory yields them).
MkFs(files, links, dirs) ==
    [kind |-> [p \in Paths |->
                  IF p \in DOMAIN dirs THEN "dir"
                  ELSE IF p \in DOMAIN files \/ p \in DOMAIN links THEN "file"
                  ELSE "missing"],
     text |-> [p \in Paths |-> IF p \in DOMAIN files THEN files[p] ELSE << >>],
     real |-> [p \in Paths |-> IF p \in DOMAIN links THEN links[p] ELSE p],
     walk |-> [p \in Paths |-> IF p \in DOMAIN dirs THEN dirs[p] ELSE << >>],
     mtime |-> [p \in Paths \cup {REPO_ROOT} |-> 1],
     deny |-> {}]

NoEntries == << >>

\* every order in which a walk can yield the entries S
Perms(S) ==
    {s \in [1..Cardinality(S) -> S] : \A i, j \in DOMAIN s : s[i] = s[j] => i = j}

\* each line followed by a newline
Unlines(ls) == Flatten([i \in 1..Len(ls) |-> ls[i] \o <<NL>>])

Repeat(x, n) == [i \in 1..n |-> x]

\* texts for searching: mixed case, blanks around words, an empty line, a
\* missing final newline, and a file with more matches than the default limit
TextS0 == << >>
TextS1 == Unlines(<< <<"a">>, <<"A", "b">> >>)
TextS2 == Join(<< <<" ", "b", "a">>, <<"b">> >>)
TextS3 == Unlines(<< <<"b", " ">>, << >>, <<"A", " ", "a">> >>)
TextLong == Unlines(Repeat(<<"a">>, DefaultScopeLimit + 1))

\* a small document with a heading
TextDoc == Unlines(<< <<"#", " ", "a">>, <<"b">> >>)

\* the api root as a directory: a.md, optionally b.md (a file or a link to
\* a.md), and n.txt, walked in any order
ApiDirs(textsA, textsB) ==
    UNION {
      {[files |-> (PA :> ta) @@ (PN :> TextS1), links |-> NoEntries,
        dirs |-> (PApi :> w)] : w \in Perms({PA, PN})}
      \cup
      {[files |-> (PA :> ta) @@ (PB :> tb) @@ (PN :> TextS1), links |-> NoEntries,
        dirs |-> (PApi :> w)] : tb \in textsB, w \in Perms({PA, PB, PN})}
      \cup
      {[files |-> (PA :> ta) @@ (PN :> TextS1), links |-> (PB :> PA),
        dirs |-> (PApi :> w)] : w \in Perms({PA, PB, PN})}
      : ta \in textsA }

\* the api root missing, or a regular file of that name
ApiNoDir ==
    { [files |-> NoEntries, links |-> NoEntries, dirs |-> NoEntries],
      [files |-> (PApi :> TextS1), links |-> NoEntries, dirs |-> NoEntries] }

\* the unified root: missing, or the combined file
WithUnified(part, texts) ==
    {part} \cup {[part EXCEPT !.files = (PUnified :> t) @@ @] : t \in texts}

FsOf(part) == MkFs(part.files, part.links, part.dirs)

SearchFs ==
    {FsOf(q) : q \in UNION {WithUnified(part, {TextS1}) :
        part \in ApiNoDir \cup
                 ApiDirs({TextS1, TextS2, TextS3, TextLong}, {TextS0, TextS1, TextS2})}}

(* ------------------------------------------------------------------ *)
(* The server: one query at a time                                     *)
(* ------------------------------------------------------------------ *)

Idle == [name |-> "idle"]

NoResult == Ok(<< >>)

\* no search_scope call is under way
NoScan == [phase |-> "none", files |-> << >>, results |-> << >>,
           limit |-> 0, opened |-> << >>]

Init0 ==
    /\ scopePaths = SCOPE_PATHS
    /\ op = Idle
    /\ res = NoResult
    /\ probe = [op |-> Idle, res |-> NoResult, since |-> 0]
    /\ scan = NoScan

\* SCOPE_PATHS had get_files_for_scope begun with files = SCOPE_PATHS[scope]:
\* the files found are appended to the registry's own list
RegistryAliased(query) ==
    IF query.name \in {"search_scope", "search_openai_docs",
                       "get_openai_doc_section_by_header"}
       /\ query.scope \in DOMAIN scopePaths
    THEN [scopePaths EXCEPT ![query.scope] = @ \o FilesOfRoots(@)]
    ELSE scopePaths

\* SCOPE_PATHS after a query: no handler assigns to it or to a list in it
\* (get_files_for_scope and the tools fill a fresh list, files = [])
RegistryAfter(query) == scopePaths

\* the caller counts, up to two, the queries it sent after the remembered one
Counted ==
    IF probe.op = Idle THEN probe
    ELSE [probe EXCEPT !.since = IF @ < 2 THEN @ + 1 ELSE @]

\* a handler runs to its end: it reads the filesystem and never writes it
Handle(query, result) ==
    /\ op.name = "idle"
    /\ op' = query
    /\ res' = result
    /\ scopePaths' = RegistryAfter(query)
    /\ probe' = Counted
    /\ UNCHANGED << fs, scan >>

SearchScope(scope, query, limit) ==
    Handle([name |-> "search_scope", scope |-> scope, query |-> query, limit |-> limit],
           search_scope(scope, query, limit))

SearchOpenaiDocs(query, scope, limit) ==
    Handle([name |-> "search_openai_docs", scope |-> scope, query |-> query,
            limit |-> limit],
           search_openai_docs(query, scope, limit))

ListOpenaiDocFiles(scope) ==
    Handle([name |-> "list_openai_doc_files", scope |-> scope],
           list_openai_doc_files(scope))

ReadSection(file, start_line, end_line, max_lines) ==
    Handle([name |-> "read_section", file |-> file, start_line |-> start_line,
            end_line |-> end_line, max_lines |-> max_lines],
           read_section(file, start_line, end_line, max_lines))

SectionByHeader(header, scope, header_level, max_lines) ==
    Handle([name |-> "get_openai_doc_section_by_header", header |-> header,
            scope |-> scope, header_level |-> header_level, max_lines |-> max_lines],
           get_openai_doc_section_by_header(header, scope, header_level, max_lines))

ListScopes == Handle([name |-> "list_scopes"], list_scopes)

GetLastUpdateMetadata ==
    Handle([name |-> "get_last_update_metadata"], get_last_update_metadata)

Server2Search(query, scope, limit) ==
    Handle([name |-> "server2_search_openai_docs", scope |-> scope, query |-> query,
            limit |-> limit],
           server2_search_openai_docs(query, scope, limit))

\* the result goes back to the caller and the server waits for the next query
Reply ==
    /\ op.name # "idle"
    /\ op' = Idle
    /\ res' = NoResult
    /\ scan' = NoScan
    /\ UNCHANGED << fs, scopePaths, probe >>

\* the caller keeps a query and its result to compare a later one with
Remember ==
    /\ op.name # "idle"
    /\ probe # [op |-> op, res |-> res, since |-> 0]
    /\ probe' = [op |-> op, res |-> res, since |-> 0]
    /\ UNCHANGED << fs, scopePaths, op, res, scan >>

(* ------------------------------------------------------------------ *)
(* search_scope, one file at a time                                    *)
(* ------------------------------------------------------------------ *)

\* the call as the caller sees it once it has ended
ScanCall(scope, query, limit) ==
    [name |-> "search_scope", scope |-> scope, query |-> query, limit |-> limit]

\* the call while its loop runs
ScanRunning(scope, query, limit) ==
    [name |-> "search_scope_running", scope |-> scope, query |-> query,
     limit |-> limit]

\* search_scope up to its loop: the early return for a blank query, the
\* default limit, results = [] and the files of the scope
ScanBegin(scope, query, limit) ==
    LET lim   == IF limit <= 0 THEN DefaultScopeLimit ELSE limit
        files == get_files_for_scope(scope)
    IN  /\ op.name = "idle"
        /\ IF query = << >> \/ Strip(query) = << >>
           THEN /\ op' = ScanCall(scope, query, limit)
                /\ res' = Ok(<< >>)
                /\ scan' = [NoScan EXCEPT !.phase = "returned", !.limit = limit]
           ELSE IF ~files.ok
           THEN /\ op' = ScanCall(scope, query, limit)
                /\ res' = files
                /\ scan' = [NoScan EXCEPT !.phase = "raised", !.limit = lim]
           ELSE /\ op' = ScanRunning(scope, query, limit)
                /\ res' = NoResult
                /\ scan' = [phase |-> "loop", files |-> files.val,
                            results |-> << >>, limit |-> lim, opened |-> << >>]
        /\ probe' = Counted
        /\ UNCHANGED << fs, scopePaths >>

\* the loop without its break: the count is never compared with the limit
ScanFile_without_break ==
    /\ scan.phase = "loop"
    /\ Len(scan.opened) < Len(scan.files)
    /\ LET file == scan.files[Len(scan.opened) + 1]
           hits == search_in_file(file, op.query)
       IN  IF ~hits.ok
           THEN /\ scan' = [scan EXCEPT !.phase = "raised",
                                        !.opened = Append(@, file)]
                /\ op' = ScanCall(op.scope, op.query, op.limit)
                /\ res' = hits
           ELSE /\ scan' = [scan EXCEPT !.results = @ \o hits.val,
                                        !.opened = Append(@, file)]
                /\ UNCHANGED << op, res >>
    /\ UNCHANGED << fs, scopePaths, probe >>

\* one turn of the loop: the next file is opened and searched to its end,
\* its hits are appended, and then the count is compared with the limit
ScanFile ==
    /\ scan.phase = "loop"
    /\ Len(scan.opened) < Len(scan.files)
    /\ LET file == scan.files[Len(scan.opened) + 1]
           hits == search_in_file(file, op.query)
       IN  IF ~hits.ok
           THEN /\ scan' = [scan EXCEPT !.phase = "raised",
                                        !.opened = Append(@, file)]
                /\ op' = ScanCall(op.scope, op.query, op.limit)
                /\ res' = hits
           ELSE /\ scan' = [scan EXCEPT
                               !.phase = IF Len(scan.results \o hits.val) >= scan.limit
                                         THEN "break" ELSE "loop",
                               !.results = @ \o hits.val,
                               !.opened = Append(@, file)]
                /\ UNCHANGED << op, res >>
    /\ UNCHANGED << fs, scopePaths, probe >>

\* the loop has ended (break, or no file is left): return results[:limit]
ScanReturn ==
    /\ \/ scan.phase = "break"
       \/ scan.phase = "loop" /\ Len(scan.opened) = Len(scan.files)
    /\ scan' = [scan EXCEPT !.phase = "returned"]
    /\ op' = ScanCall(op.scope, op.query, op.limit)
    /\ res' = Ok(PySlice(scan.results, 0, scan.limit))
    /\ UNCHANGED << fs, scopePaths, probe >>

(* ------------------------------------------------------------------ *)
(* Searching and listing                                               *)
(* ------------------------------------------------------------------ *)

SearchQueries ==
    { << >>, <<" ">>, <<"a">>, <<"A">>, <<" ", "a">>, <<"a", "b">>, <<"b", " ">> }

MaxLimit == 3

Limits == (-1)..MaxLimit

SearchScopes == {"unified", "api"}

InitSearch == Init0 /\ fs \in SearchFs

NextSearch ==
    \/ \E sc \in SearchScopes, q \in SearchQueries, l \in Limits : SearchScope(sc, q, l)
    \/ \E sc \in SearchScopes, q \in SearchQueries, l \in Limits : SearchOpenaiDocs(q, sc, l)
    \/ \E sc \in SearchScopes : ListOpenaiDocFiles(sc)
    \/ Reply

SpecSearch == InitSearch /\ [][NextSearch]_vars

(* ------------------------------------------------------------------ *)
(* Reading sections by line range and by header                        *)
(* ------------------------------------------------------------------ *)

MaxFileLines == 4

\* the lines files are made of here: headings of two levels, a bare hash,
\* plain text
SectionLines ==
    << <<"#", " ", "a">>, <<"b">>, <<"#", "#", " ", "a">>, <<"#">>, <<"A", " ", "b">> >>

FirstLines(n) == [i \in 1..n |-> SectionLines[((i - 1) % Len(SectionLines)) + 1]]

\* a.md with 0..MaxFileLines lines, with and without a final newline
SectionFs ==
    {MkFs((PA :> t), NoEntries, (PApi :> << PA >>)) :
        t \in UNION {{Unlines(FirstLines(n)), Join(FirstLines(n))} : n \in 0..MaxFileLines}}

MaxArg == 5

StartArgs == (-1)..MaxArg

EndArgs == {None} \cup {Some(n) : n \in 0..MaxArg}

MaxLinesArgs == (-2)..MaxArg

SectionFiles == {PA, PApi, PNope}

SectionHeaders == { <<"a">>, <<"b">> }

LevelArgs == {None, Some(1), Some(2)}

InitSection == Init0 /\ fs \in SectionFs

NextSection ==
    \/ \E f \in SectionFiles, st \in StartArgs, en \in EndArgs, ml \in MaxLinesArgs :
          ReadSection(f, st, en, ml)
    \/ \E h \in SectionHeaders, lv \in LevelArgs, ml \in MaxLinesArgs :
          SectionByHeader(h, "api", lv, ml)
    \/ Reply

SpecSection == InitSection /\ [][NextSection]_vars

(* ------------------------------------------------------------------ *)
(* Finding sections by header                                          *)
(* ------------------------------------------------------------------ *)

MaxHeaderFileLines == 3

\* a level-1 heading, a level-2 heading in capitals, a bare hash, plain text,
\* a heading followed by a blank, an indented heading with another text
HeaderLines ==
    { <<"#", " ", "a">>, <<"#", "#", " ", "A">>, <<"#">>, <<"b">>,
      <<"#", " ", "a", " ">>, <<" ", "#", " ", "b">> }

SeqsUpTo(S, n) == UNION {[1..k -> S] : k \in 0..n}

\* a.md made of up to MaxHeaderFileLines of these lines
HeaderFs ==
    {MkFs((PA :> Unlines(ls)), NoEntries, (PApi :> << PA >>)) :
        ls \in SeqsUpTo(HeaderLines, MaxHeaderFileLines)}

HeaderArgs == { <<"a">>, <<" ", "A">> }

MaxHeaderLinesArg == 3

\* maxLines from 0 up; negative values are exercised by SpecSection
HeaderMaxLinesArgs == 0..MaxHeaderLinesArg

InitHeader == Init0 /\ fs \in HeaderFs

NextHeader ==
    \/ \E h \in HeaderArgs, lv \in LevelArgs, ml \in HeaderMaxLinesArgs :
          SectionByHeader(h, "api", lv, ml)
    \/ Reply

SpecHeader == InitHeader /\ [][NextHeader]_vars

(* ------------------------------------------------------------------ *)
(* The newest file                                                     *)
(* ------------------------------------------------------------------ *)

\* modification times run from the epoch (0) to MaxMtime seconds after it
MaxMtime == 2

Mtimes == 0..MaxMtime

\* the api root holds a.md and b.md, walked in either order; b.md is a file
\* or a dangling link; the unified file and an entry named like the guides
\* root (a regular file) are there or not
UpdatedShapes ==
    {[f EXCEPT !.kind = [@ EXCEPT ![PB] = kb]] :
        kb \in {"file", "missing"},
        f \in {FsOf([files |-> (PA :> TextS1) @@ (PB :> TextS1) @@ extra,
                     links |-> NoEntries,
                     dirs  |-> (PApi :> w)]) :
                  w \in Perms({PA, PB}),
                  extra \in {NoEntries, (PUnified :> TextS1), (PGuides :> TextS1),
                             (PUnified :> TextS1) @@ (PGuides :> TextS1)}}}

Stamped == {PA, PB, PUnified, PGuides, REPO_ROOT}

UpdatedFs ==
    {[f EXCEPT !.mtime = [p \in DOMAIN @ |->
                            IF p \in Stamped THEN m[p] ELSE @[p]]] :
        f \in UpdatedShapes, m \in [Stamped -> Mtimes]}

InitUpdated == Init0 /\ fs \in UpdatedFs

NextUpdated ==
    \/ GetLastUpdateMetadata
    \/ Reply

SpecUpdated == InitUpdated /\ [][NextUpdated]_vars

(* ------------------------------------------------------------------ *)
(* Candidate files of a section by header                              *)
(* ------------------------------------------------------------------ *)

\* files with the heading, with it at level 2, with a blank after it, with
\* no heading but as many lines that hold its text as candidates are taken
\* (and one fewer), and an empty file
CandidateTexts ==
    { TextDoc,
      Unlines(<< <<"b">>, <<"#", "#", " ", "a">>, <<"c">> >>),
      Unlines(<< <<"#", " ", "a", " ">> >>),
      Unlines(Repeat(<<"a">>, CandidateLimit)),
      Unlines(Repeat(<<"a">>, CandidateLimit - 1)),
      TextS0 }

\* a.md and b.md below the api root, walked in either order
CandidateFs ==
    {MkFs((PA :> ta) @@ (PB :> tb) @@ (PUnified :> TextDoc), NoEntries, (PApi :> w)) :
        ta \in CandidateTexts, tb \in CandidateTexts, w \in Perms({PA, PB})}

CandidateHeaders == { <<"a">>, <<"A", " ">>, <<"b">>, <<" ">> }

InitCandidates == Init0 /\ fs \in CandidateFs

NextCandidates ==
    \/ \E h \in CandidateHeaders, sc \in SearchScopes, lv \in LevelArgs :
          SectionByHeader(h, sc, lv, MaxHeaderLinesArg)
    \/ Reply

SpecCandidates == InitCandidates /\ [][NextCandidates]_vars

(* ------------------------------------------------------------------ *)
(* Files that cannot be read                                           *)
(* ------------------------------------------------------------------ *)

\* a line with bytes that are not UTF-8 inside a word
TextBytes == Unlines(<< <<"a", Undecodable, "b">> >>)

\* a.md and b.md below the api root, walked in either order
UnreadableBase(tb) ==
    {MkFs((PA :> TextS1) @@ (PB :> tb) @@ (PUnified :> TextS1), NoEntries,
          (PApi :> w)) : w \in Perms({PA, PB})}

\* b.md is a readable file, a file with undecodable bytes, a file the process
\* may not open, or a dangling link
UnreadableFs ==
    UnreadableBase(TextS1) \cup UnreadableBase(TextBytes)
    \cup {[f EXCEPT !.deny = {PB}] : f \in UnreadableBase(TextS1)}
    \cup {[f EXCEPT !.kind = [@ EXCEPT ![PB] = "missing"]] : f \in UnreadableBase(TextS0)}

UnreadableQueries == { <<"a">>, <<"a", "b">>, <<" ">> }

InitUnreadable == Init0 /\ fs \in UnreadableFs

NextUnreadable ==
    \/ \E sc \in SearchScopes, q \in UnreadableQueries, l \in 0..MaxLimit :
          SearchScope(sc, q, l)
    \/ \E sc \in SearchScopes, q \in UnreadableQueries, l \in 0..MaxLimit :
          SearchOpenaiDocs(q, sc, l)
    \/ \E sc \in SearchScopes, q \in UnreadableQueries, l \in 0..MaxLimit :
          Server2Search(q, sc, l)
    \/ Reply

SpecUnreadable == InitUnreadable /\ [][NextUnreadable]_vars

(* ------------------------------------------------------------------ *)
(* The search loop                                                     *)
(* ------------------------------------------------------------------ *)

\* the filesystems of SearchFs, and those with b.md a dangling link
ScanFs ==
    SearchFs \cup
    {[FsOf(part) EXCEPT !.kind = [@ EXCEPT ![PB] = "missing"]] :
        part \in {q \in ApiDirs({TextS1}, {TextS1}) : PB \in DOMAIN q.files}}

ScanQueries == { << >>, <<"a">>, <<" ", "a">>, <<"b">> }

InitScan == Init0 /\ fs \in ScanFs

NextScan ==
    \/ \E sc \in SearchScopes \cup {"bogus"}, q \in ScanQueries, l \in 0..MaxLimit :
          ScanBegin(sc, q, l)
    \/ ScanFile
    \/ ScanReturn
    \/ Reply

SpecScan == InitScan /\ [][NextScan]_vars

(* ------------------------------------------------------------------ *)
(* The whole engine, with a caller that compares repeated queries      *)
(* ------------------------------------------------------------------ *)

\* modification times: all equal, or a.md the newest file
EngineMtimes(f) ==
    { f, [f EXCEPT !.mtime = [@ EXCEPT ![PA] = 2, ![REPO_ROOT] = 3]] }

EngineFs ==
    UNION {EngineMtimes(FsOf([part EXCEPT !.files = (PUnified :> TextS1) @@ @])) :
        part \in ApiDirs({TextDoc}, {TextS2})}

EngineScopes == {"api", "unified", "bogus"}

EngineQueries == { << >>, <<" ">>, <<"a">> }

EngineLimits == {0, 1}

Init == Init0 /\ fs \in EngineFs

Next ==
    \/ \E sc \in EngineScopes, q \in EngineQueries, l \in EngineLimits :
          SearchScope(sc, q, l)
    \/ \E sc \in EngineScopes, q \in EngineQueries, l \in EngineLimits :
          SearchOpenaiDocs(q, sc, l)
    \/ \E sc \in EngineScopes, q \in EngineQueries, l \in EngineLimits :
          Server2Search(q, sc, l)
    \/ \E sc \in EngineScopes : ListOpenaiDocFiles(sc)
    \/ ListScopes
    \/ GetLastUpdateMetadata
    \/ \E f \in {PA, PNope}, st \in {0, 3}, en \in {None, Some(1)} :
          ReadSection(f, st, en, 1)
    \/ \E sc \in EngineScopes : SectionByHeader(<<"a">>, sc, None, 2)
    \/ Reply
    \/ Remember

Spec == Init /\ [][Next]_vars

(* ------------------------------------------------------------------ *)
(* What the claims speak of                                            *)
(* ------------------------------------------------------------------ *)

IsSearch == op.name \in {"search_scope", "search_openai_docs"}

KnownScope(sc) == sc \in Range(SCOPES)

NonBlank(q) == \E i \in 1..Len(q) : q[i] \notin Whitespace

\* line number n (1-based) of a file
LinesOfFile(f) == SplitLines(ReadText(f))

\* q occurs in line, letters compared without regard to case
OccursIgnoringCase(q, line) ==
    \E i \in 0..(Len(line) - Len(q)) :
        \A k \in 1..Len(q) : LowerChar(line[i + k]) = LowerChar(q[k])

\* the limit a search applies: the given one, or the operation's default
EffectiveLimit ==
    IF op.limit > 0 THEN op.limit
    ELSE IF op.name = "search_scope" THEN DefaultScopeLimit ELSE DefaultToolLimit

HitShows(hit, q) ==
    /\ hit.line \in 1..Len(LinesOfFile(hit.file))
    /\ OccursIgnoringCase(q, LinesOfFile(hit.file)[hit.line])

ScopeFileSet(sc) ==
    UNION { IF IsFile(r) /\ HasMdSuffix(r) THEN {Resolve(r)}
            ELSE IF IsDir(r)
                 THEN {Resolve(p) : p \in {x \in Range(fs.walk[r]) : HasMdSuffix(x)}}
                 ELSE {}
            : r \in Range(SCOPE_PATHS[sc]) }

\* a set of paths as the sequence in ascending order
Ascending(S) ==
    [i \in 1..Cardinality(S) |->
        CHOOSE p \in S : Cardinality({x \in S : StrLess(x, p)}) = i - 1]

\* the hits of one file for a query, top to bottom
FileHits(f, q) ==
    LET lines == LinesOfFile(f)
        idx   == SelectSeq([i \in 1..Len(lines) |-> i],
                           LAMBDA i : OccursIgnoringCase(q, lines[i]))
    IN  [k \in 1..Len(idx) |->
            [file |-> f, line |-> idx[k], snippet |-> Strip(lines[idx[k]])]]

\* the hits of a scope in the enumerator's order
OrderedHits(sc, q) ==
    LET files == Ascending(ScopeFileSet(sc))
    IN  Flatten([i \in 1..Len(files) |-> FileHits(files[i], q)])

\* C2 as stated: the hits of search_scope are the first `limit` of the hits of
\* the scope's files taken in ascending path order, each physical file once,
\* each file's matching lines top to bottom.
C2_EnumeratorOrder ==
    (op.name = "search_scope" /\ KnownScope(op.scope) /\ NonBlank(op.query)) =>
        /\ res.ok
        /\ res.val = PySlice(OrderedHits(op.scope, op.query), 0, EffectiveLimit)

\* C3 as stated: the listing of a recognized scope is strictly ascending, names
\* no physical file twice, and holds exactly the Markdown files reachable from
\* the roots that exist (so it is empty when there are none).
C3_ListingExact ==
    (op.name = "list_openai_doc_files" /\ KnownScope(op.scope)) =>
        /\ res.ok
        /\ \A i, j \in 1..Len(res.val) : i < j => StrLess(res.val[i], res.val[j])
        /\ \A i, j \in 1..Len(res.val) :
              Resolve(res.val[i]) = Resolve(res.val[j]) => i = j
        /\ Range(res.val) = ScopeFileSet(op.scope)

\* lines first..last of a file, 1-based and inclusive (none when last < first)
LinesFromTo(f, first, last) == SubSeq(LinesOfFile(f), first, last)

IsRegularFile(f) == fs.kind[f] = "file"

\* startLine clamped up to 1
ClampedStart == IF op.start_line < 1 THEN 1 ELSE op.start_line

\* the end readSection is to use, for a request that is in range
ExpectedEnd ==
    IF op.end_line # None THEN Min(op.end_line[1], Len(LinesOfFile(op.file)))
    ELSE Min(ClampedStart - 1 + op.max_lines, Len(LinesOfFile(op.file)))

\* C4 as stated: on a file of N >= 1 lines, with the clamped start s <= N (and
\* endLine >= s when given), readSection returns start_line = s, end_line = E,
\* the lines s..E joined by newlines, and line_count = E - s + 1, where E is
\* min(endLine, N), or min(s - 1 + maxLines, N) when endLine is omitted.
C4_SliceAsStated ==
    (/\ op.name = "read_section"
     /\ IsRegularFile(op.file)
     /\ Len(LinesOfFile(op.file)) >= 1
     /\ ClampedStart <= Len(LinesOfFile(op.file))
     /\ (op.end_line # None => op.end_line[1] >= ClampedStart)) =>
        /\ res.ok
        /\ res.val.start_line = ClampedStart
        /\ res.val.end_line = ExpectedEnd
        /\ res.val.content = Join(LinesFromTo(op.file, ClampedStart, ExpectedEnd))
        /\ res.val.line_count = ExpectedEnd - ClampedStart + 1

IsSection == op.name \in {"read_section", "get_openai_doc_section_by_header"}

\* C5 as stated: every slice returned, whatever maxLines is, has start_line
\* and end_line 1-based inclusive line numbers of its file (an empty range is
\* written end_line = start_line - 1), content the join of exactly those
\* lines, and line_count their number, end_line - start_line + 1.
C5_SliceInvariant ==
    (IsSection /\ res.ok) =>
        LET r == res.val
            n == Len(LinesOfFile(r.file))
        IN  /\ r.start_line \in 1..n
            /\ r.end_line \in (r.start_line - 1)..n
            /\ r.content = Join(LinesFromTo(r.file, r.start_line, r.end_line))
            /\ r.line_count = Len(LinesFromTo(r.file, r.start_line, r.end_line))
            /\ r.line_count = r.end_line - r.start_line + 1

\* the request of a read_section is out of range
StartPastEnd == ClampedStart > Len(LinesOfFile(op.file))

EndBeforeStart == op.end_line # None /\ op.end_line[1] < ClampedStart

\* C6 as stated: on an existing file readSection fails exactly when the
\* clamped start is past the last line or a given endLine is before it; each
\* such range error names the requested value and the file's line count; a
\* path that does not exist gives a file-not-found error.
C6_AsStated ==
    (op.name = "read_section") =>
        /\ ~Exists(op.file) => (~res.ok /\ res.err = "FileNotFoundError")
        /\ IsRegularFile(op.file) =>
              /\ ~res.ok <=> (StartPastEnd \/ EndBeforeStart)
              /\ ~res.ok =>
                    /\ res.err = "ValueError"
                    /\ Len(LinesOfFile(op.file)) \in Range(res.info)
                    /\ (IF StartPastEnd THEN ClampedStart ELSE op.end_line[1])
                           \in Range(res.info)

\* C6 amended: as stated, except that only the start-past-end error names the
\* (clamped) start line and the file's line count; the end-before-start error,
\* raised when the start is within the file, names no number.
C6_RangeErrors ==
    (op.name = "read_section") =>
        /\ ~Exists(op.file) => (~res.ok /\ res.err = "FileNotFoundError")
        /\ IsRegularFile(op.file) =>
              /\ ~res.ok <=> (StartPastEnd \/ EndBeforeStart)
              /\ ~res.ok =>
                    /\ res.err = "ValueError"
                    /\ res.info = IF StartPastEnd
                                  THEN << ClampedStart, Len(LinesOfFile(op.file)) >>
                                  ELSE << >>

\* a start below 1 was clamped and the given end lies before line 1: the
\* range error that names no number
C6_Witness ==
    /\ op.name = "read_section"
    /\ IsRegularFile(op.file)
    /\ op.start_line < 1
    /\ EndBeforeStart
    /\ ~StartPastEnd
    /\ ~res.ok
    /\ res.info = << >>

\* the count of leading '#' of a line after left-trimming
HeadingLevel(line) == LeadCount(LStrip(line), {"#"})

\* the text after the hashes, trimmed on both sides
HeadingText(line) ==
    LET st == LStrip(line) IN Strip(SubSeq(st, HeadingLevel(line) + 1, Len(st)))

\* a heading line: one or more '#' followed by non-empty visible text
IsHeadingLine(line) == HeadingLevel(line) >= 1 /\ HeadingText(line) # << >>

\* the smallest element of a non-empty set of numbers
Least(S) == CHOOSE x \in S : \A y \in S : x <= y

\* the line before the first heading after line h of level <= k, or the last
SectionLastLine(lines, h, k) ==
    LET stops == {j \in (h + 1)..Len(lines) :
                     IsHeadingLine(lines[j]) /\ HeadingLevel(lines[j]) <= k}
    IN  IF stops = {} THEN Len(lines) ELSE Least(stops) - 1

IsByHeader == op.name = "get_openai_doc_section_by_header"

\* C7 as stated: the section found at heading line h of level k runs to the
\* line before the next heading line (hashes followed by visible text) of
\* level <= k, or to the end of the file, cut to its first maxLines lines if
\* it is longer.
C7_SectionExtent ==
    (IsByHeader /\ res.ok) =>
        LET lines == LinesOfFile(res.val.file)
            h     == res.val.start_line
            last  == SectionLastLine(lines, h, HeadingLevel(lines[h]))
            len   == last - h + 1
            kept  == IF len > op.max_lines THEN op.max_lines ELSE len
        IN  /\ res.val.end_line = h + kept - 1
            /\ res.val.content = Join(SubSeq(lines, h, h + kept - 1))

\* a heading the request asks for: its trimmed text equals the trimmed header
\* without regard to case, at the requested level if one is given
IsRequestedHeading(line) ==
    /\ IsHeadingLine(line)
    /\ Lower(HeadingText(line)) = Lower(Strip(op.header))
    /\ (op.header_level # None => HeadingLevel(line) = op.header_level[1])

\* the files search(scope, header) names, in hit order
CandidateFiles ==
    LET hits == PySlice(OrderedHits(op.scope, op.header), 0, CandidateLimit)
    IN  [i \in 1..Len(hits) |-> hits[i].file]

\* C8 as stated: in a candidate file the section starts at the first line that
\* is a heading whose trimmed text equals the trimmed header without regard to
\* case (and whose level is headerLevel when given); here the scope holds one
\* file, so the header is not found exactly when that file has no such line.
C8_FirstRequestedHeading ==
    (IsByHeader /\ Range(CandidateFiles) = {PA}) =>
        LET lines   == LinesOfFile(PA)
            wanted  == {i \in 1..Len(lines) : IsRequestedHeading(lines[i])}
        IN  IF wanted = {} THEN ~res.ok /\ res.err = "HeaderNotFound"
            ELSE res.ok /\ res.val.file = PA /\ res.val.start_line = Least(wanted)

TakesScope == "scope" \in DOMAIN op

\* C9 as stated: every operation that takes a scope answers an unrecognized
\* scope with the unknown-scope error, whatever the query and the limit, and a
\* search of a recognized scope for a blank query returns the empty list.
C9_UnknownScopeRejected ==
    /\ (TakesScope /\ ~KnownScope(op.scope)) =>
          (~res.ok /\ res.err = "UnknownScope")
    /\ (TakesScope /\ "query" \in DOMAIN op /\ KnownScope(op.scope)
           /\ ~NonBlank(op.query)) =>
          res = Ok(<< >>)

\* a query that is the remembered one returns the remembered result
RepeatAgrees == (op.name # "idle" /\ op = probe.op) => res = probe.res

AllRoots == Flatten([i \in 1..Len(SCOPES) |-> scopePaths[SCOPES[i]]])

\* the Markdown files reachable from the roots, in walk order
AllMarkdown == SelectSeq(FilesOfRoots(AllRoots), IsFile)

\* the first position in files that holds the greatest modification time
FirstNewest(files) ==
    Least({i \in 1..Len(files) :
              \A j \in 1..Len(files) : Mtime(files[j]) <= Mtime(files[i])})

\* C11 as stated: lastUpdated reports the Markdown file with the greatest
\* modification time among all files reachable from every root of every
\* scope, the first one in walk order when several share that time, and the
\* repository root's own time and identity when no file is found at all.
C11_NewestFile ==
    op.name = "get_last_update_metadata" =>
        /\ res.ok
        /\ res.val.last_modified_iso = IsoUtc(res.val.last_modified_unix)
        /\ IF AllMarkdown = << >>
           THEN /\ res.val.last_modified_file = REPO_ROOT
                /\ res.val.last_modified_unix = Mtime(REPO_ROOT)
           ELSE /\ res.val.last_modified_file = AllMarkdown[FirstNewest(AllMarkdown)]
                /\ res.val.last_modified_unix =
                      Mtime(AllMarkdown[FirstNewest(AllMarkdown)])

\* all hits of a file that could be read, none of one that could not
ScanHits(f) == IF CanRead(f) THEN FileHits(f, op.query) ELSE << >>

\* the hits of the first n files of the scan
HitsOfFirst(n) == Flatten([i \in 1..n |-> ScanHits(scan.files[i])])

\* the files opened are the first files of the iteration order, each was
\* searched to its end, none was opened once the count had reached the
\* limit, and the list returned is the first `limit` of the hits collected
ScanStopsAtLimit ==
    LET n == Len(scan.opened)
    IN  scan.phase \in {"loop", "break", "returned", "raised"} =>
          /\ scan.opened = SubSeq(scan.files, 1, n)
          /\ scan.phase # "raised" => scan.results = HitsOfFirst(n)
          /\ \A k \in 1..n : Len(HitsOfFirst(k - 1)) < scan.limit
          /\ scan.files # << >> =>
                scan.limit = IF op.limit > 0 THEN op.limit ELSE DefaultScopeLimit
          /\ (scan.phase = "returned" /\ NonBlank(op.query)) =>
                /\ res = Ok(SubSeq(scan.results, 1, Min(scan.limit, Len(scan.results))))
                /\ Len(scan.results) >= scan.limit => Len(res.val) = scan.limit
                /\ n = Len(scan.files) \/ Len(scan.results) >= scan.limit

\* a step opens a file only while the count is below the limit
OpensBelowLimit ==
    (scan'.phase # "none" /\ scan'.opened # scan.opened) =>
        /\ Len(scan.results) < scan.limit
        /\ Len(scan'.opened) = Len(scan.opened) + 1

\* C12: once the accumulated hit count has reached the effective limit no
\* further file is opened or read and the returned list is cut to exactly
\* `limit` items; files later in the iteration order are not scanned even
\* if they hold matches, and a file that is scanned is scanned in full
\* before the count is compared with the limit.
C12_StopsAtLimit ==
    /\ [](ScanStopsAtLimit)
    /\ [][OpensBelowLimit]_vars

\* a search returned exactly `limit` hits out of more that its last opened
\* file gave, and left unopened a later file that holds a match
C12_Witness ==
    /\ scan.phase = "returned"
    /\ Len(scan.results) > scan.limit
    /\ Len(res.val) = scan.limit
    /\ Len(scan.opened) < Len(scan.files)
    /\ \E i \in (Len(scan.opened) + 1)..Len(scan.files) :
          ScanHits(scan.files[i]) # << >>

\* the call that ran file by file ended as the whole function does
ScanAgrees ==
    scan.phase \in {"returned", "raised"} =>
        res = search_scope(op.scope, op.query, op.limit)

\* the files named by the hits of search(scope, query = header), at most
\* CandidateLimit of them, in hit order
HitFiles ==
    LET hits == search_scope(op.scope, op.header, CandidateLimit).val
    IN  [i \in 1..Len(hits) |-> hits[i].file]

\* the lines of a file that are the requested heading
RequestedIn(f) ==
    {i \in 1..Len(LinesOfFile(f)) : IsRequestedHeading(LinesOfFile(f)[i])}

\* C13 as stated: sectionByHeader tries the files named by the at most 8
\* hits of search(scope, query = header) in hit order and returns the
\* extraction from the first of them that contains a matching heading; it
\* reports the header as not found exactly when none of them contains one,
\* whatever the other files of the scope hold.
C13_CandidatesOnly ==
    (IsByHeader /\ KnownScope(op.scope)) =>
        LET good == {i \in 1..Len(HitFiles) : RequestedIn(HitFiles[i]) # {}}
        IN  IF good = {} THEN ~res.ok /\ res.err = "HeaderNotFound"
            ELSE /\ res.ok
                 /\ res.val.file = HitFiles[Least(good)]
                 /\ res.val.start_line = Least(RequestedIn(HitFiles[Least(good)]))

\* the hits of the files of a scope that can be read, in the order of the
\* search, for a query trimmed as the operation trims it
ReadableHits(sc, q) ==
    LET files == SelectSeq(FilesOfRoots(scopePaths[sc]), CanRead)
    IN  Flatten([i \in 1..Len(files) |-> FileHits(files[i], q)])

\* C14 as stated: a file of the scope that cannot be read is passed over
\* silently: the search still returns the hits of the readable files in
\* their normal order, and never fails because of one unreadable file.
C14_UnreadableSkipped ==
    /\ (IsSearch /\ KnownScope(op.scope) /\ NonBlank(op.query)) =>
          /\ res.ok
          /\ res.val = PySlice(ReadableHits(op.scope,
                                   IF op.name = "search_openai_docs"
                                   THEN Strip(op.query) ELSE op.query),
                               0, EffectiveLimit)
    /\ (op.name = "server2_search_openai_docs" /\ KnownScope(op.scope)) =>
          /\ res.ok
          /\ \A k \in 1..Len(res.val) : CanRead(res.val[k].file)
          /\ (NonBlank(op.query) /\ ReadableHits(op.scope, Strip(op.query)) # << >>) =>
                res.val # << >>

====
